---- MODULE Spec2Model ----
(***************************************************************************)
(* Flow Builder (src/src/pages/index.js): the graph store (nodes, edges),  *)
(* the modal edit session (showModal, isEditMode, currentNode, error) and  *)
(* the export / import codec, as a state machine with one action per       *)
(* handler of FlowBuilderContent.                                          *)
(*                                                                         *)
(* JavaScript values: an object is a TLA+ record whose DOMAIN is the set   *)
(* of keys the object has (a missing key is a missing field), an array is  *)
(* a sequence, a label is a sequence of characters (so that trim() is      *)
(* computed), ids and descriptions are strings.                            *)
(***************************************************************************)
EXTENDS Integers, Sequences, FiniteSets, TLC

VARIABLES
    nodes,        \* useNodesState: array of node objects
    edges,        \* useEdgesState: array of edge objects
    showModal,    \* useState(false)
    isEditMode,   \* useState(false)
    error,        \* useState('')
    currentNode,  \* useState({id, label, description}): the edit buffer
    uuidCount,    \* number of ids uuidv4() has produced so far
    files,        \* documents on disk that the user can pick for import
    pending,      \* FileReader reads started and not yet completed
    exported,     \* history: the graphs handleExport has written
    issued,       \* history: the ids given to the nodes handleSaveNode added
    last          \* history: the handler that ran last, with its input

vars == <<nodes, edges, showModal, isEditMode, error, currentNode,
          uuidCount, files, pending, exported, issued, last>>

(***************************************************************************)
(* Bounds                                                                  *)
(***************************************************************************)
MaxUuid == 2         \* uuidv4() calls in a run
MaxEdges == 1        \* edges in the store after an onConnect
MaxFiles == 1        \* exported documents kept on disk
MaxPending == 1      \* file reads in flight
MaxImportUuid == 1   \* uuidv4() calls in a run that also exports and imports

\* What the user can type into the label field: a blank, a letter (the field
\* of a new node starts empty).
LabelInputs == {<<" ">>, <<"B">>}
\* What the user can type into the description field.  The code only copies
\* a description, or replaces a missing one by '', so one value stands for all.
DescriptionInputs == {""}
\* Handles a connection gesture can carry (default nodes have unnamed ones).
HandleInputs == {"null"}

(***************************************************************************)
(* Strings                                                                 *)
(***************************************************************************)
Whitespace == {" ", "\t", "\n"}

RECURSIVE TrimStart(_)
TrimStart(s) ==
    IF s = << >> THEN << >>
    ELSE IF Head(s) \in Whitespace THEN TrimStart(Tail(s)) ELSE s

RECURSIVE TrimEnd(_)
TrimEnd(s) ==
    IF s = << >> THEN << >>
    ELSE IF s[Len(s)] \in Whitespace THEN TrimEnd(SubSeq(s, 1, Len(s) - 1)) ELSE s

\* String.prototype.trim
Trim(s) == TrimEnd(TrimStart(s))

\* a variant without the trim: !currentNode.label
LabelEmpty(label) == label = << >>

\* !currentNode.label.trim(): the empty string is the only falsy string
LabelMissing(label) == Trim(label) = << >>

(***************************************************************************)
(* Identifier generator                                                    *)
(***************************************************************************)
UuidNames == <<"uuid-a", "uuid-b", "uuid-c", "uuid-d", "uuid-e">>

\* uuidv4(): the k-th call returns the k-th of a series of distinct ids,
\* none of which is "1".
uuidv4(k) == UuidNames[k]

(***************************************************************************)
(* Initial store                                                           *)
(***************************************************************************)
SeedNode ==
    [id |-> "1", type |-> "default", position |-> [x |-> 100, y |-> 100],
     data |-> [label |-> <<"S", "t", "a", "r", "t">>]]

EmptyBuffer == [id |-> "", label |-> << >>, description |-> ""]

\* The program's state as a handler finds it, kept in `last` by the handlers
\* that change the store or end a session.
Pre ==
    [nodes |-> nodes, edges |-> edges, showModal |-> showModal,
     isEditMode |-> isEditMode, error |-> error, currentNode |-> currentNode]

NodeIds(nds) == {nds[i].id : i \in 1..Len(nds)}

(***************************************************************************)
(* Edges: addEdge of reactflow, as onConnect (line 220) calls it           *)
(***************************************************************************)
\* sourceHandle || '' in getEdgeId: a null handle contributes nothing
HandleText(h) == IF h = "null" THEN "" ELSE h

\* getEdgeId
getEdgeId(e) ==
    "reactflow__edge-" \o e.source \o HandleText(e.sourceHandle)
        \o "-" \o e.target \o HandleText(e.targetHandle)

\* connectionExists: same endpoints and same handles
connectionExists(edge, eds) ==
    \E i \in 1..Len(eds) :
        /\ eds[i].source = edge.source
        /\ eds[i].target = edge.target
        /\ eds[i].sourceHandle = edge.sourceHandle
        /\ eds[i].targetHandle = edge.targetHandle

\* a variant that keeps the four fields of the connection and the id only
addEdgeConnectionOnly(edgeParams, eds) ==
    LET edge == [source |-> edgeParams.source,
                 sourceHandle |-> edgeParams.sourceHandle,
                 target |-> edgeParams.target,
                 targetHandle |-> edgeParams.targetHandle,
                 id |-> getEdgeId(edgeParams)]
    IN  IF edgeParams.source = "" \/ edgeParams.target = "" THEN eds
        ELSE IF connectionExists(edge, eds) THEN eds
        ELSE Append(eds, edge)

\* addEdge(edgeParams, eds): the params carry no id, so one is derived;
\* a connection that exists already is not added again.
addEdge(edgeParams, eds) ==
    LET edge == [source |-> edgeParams.source,
                 sourceHandle |-> edgeParams.sourceHandle,
                 target |-> edgeParams.target,
                 targetHandle |-> edgeParams.targetHandle,
                 animated |-> edgeParams.animated,
                 id |-> getEdgeId(edgeParams)]
    IN  IF edgeParams.source = "" \/ edgeParams.target = "" THEN eds
        ELSE IF connectionExists(edge, eds) THEN eds
        ELSE Append(eds, edge)

(***************************************************************************)
(* Store updates (the functions handed to setNodes / setEdges)             *)
(***************************************************************************)
\* a variant that builds the updated node afresh instead of spreading ...n
UpdateNodeRebuilt(nds, buf) ==
    [i \in 1..Len(nds) |->
        IF nds[i].id = buf.id
        THEN [id |-> nds[i].id, position |-> [x |-> 150, y |-> 100],
              data |-> [label |-> buf.label, description |-> buf.description]]
        ELSE nds[i]]

\* a variant without the test on the id: every node takes the buffer's data
UpdateAllNodes(nds, buf) ==
    [i \in 1..Len(nds) |->
        [nds[i] EXCEPT !.data = [label |-> buf.label,
                                 description |-> buf.description]]]

\* nds.map(n => n.id === id ? {...n, data: {label, description}} : n)
UpdateNode(nds, buf) ==
    [i \in 1..Len(nds) |->
        IF nds[i].id = buf.id
        THEN [nds[i] EXCEPT !.data = [label |-> buf.label,
                                      description |-> buf.description]]
        ELSE nds[i]]

\* a variant that counts the new node in: 70 * (count + 1)
NewNodePositionOffByOne(count) == [x |-> 150, y |-> 100 + 70 * (count + 1)]

\* position of a node added to a store of `count` nodes: count || 1
NewNodePosition(count) ==
    [x |-> 150, y |-> 100 + 70 * (IF count = 0 THEN 1 ELSE count)]

\* a variant that numbers the nodes instead of calling uuidv4():
\* id: String(nodes.length + 1)
NewNodeNumbered(id, count, buf) ==
    [id |-> <<"1", "2", "3", "4", "5", "6">>[count + 1],
     position |-> NewNodePosition(count),
     data |-> [label |-> buf.label, description |-> buf.description]]

\* the newNode object of handleSaveNode
NewNode(id, count, buf) ==
    [id |-> id, position |-> NewNodePosition(count),
     data |-> [label |-> buf.label, description |-> buf.description]]

\* a variant with the test inverted: n.id === id
RemoveNodeInverted(nds, id) == SelectSeq(nds, LAMBDA n : n.id = id)

\* a variant that splices: nds.splice(nds.findIndex(n => n.id === id), 1),
\* where findIndex gives -1 for an id no node has and splice(-1, 1) removes
\* the last node
RemoveNodeSplice(nds, id) ==
    IF \E i \in 1..Len(nds) : nds[i].id = id
    THEN SelectSeq(nds, LAMBDA n : n.id # id)
    ELSE SubSeq(nds, 1, Len(nds) - 1)

\* nds.filter(n => n.id !== id)
RemoveNode(nds, id) == SelectSeq(nds, LAMBDA n : n.id # id)

\* a variant that forgets the edges that end at the node: e.source !== id
RemoveEdgesFrom(eds, id) == SelectSeq(eds, LAMBDA e : e.source # id)

\* a variant that forgets the edges that start at the node: e.target !== id
RemoveEdgesTo(eds, id) == SelectSeq(eds, LAMBDA e : e.target # id)

\* eds.filter(e => e.source !== id && e.target !== id)
RemoveEdgesOf(eds, id) == SelectSeq(eds, LAMBDA e : e.source # id /\ e.target # id)

\* a variant that spaces the nodes from where they are: node.position.y + idx * 80
ArrangeNodesRelative(nds) ==
    [i \in 1..Len(nds) |->
        [nds[i] EXCEPT !.position = [x |-> 100,
                                     y |-> nds[i].position.y + (i - 1) * 80]]]

\* a variant that counts the nodes from one: y: 100 + (idx + 1) * 80
ArrangeNodesOneBased(nds) ==
    [i \in 1..Len(nds) |->
        [nds[i] EXCEPT !.position = [x |-> 100, y |-> 100 + i * 80]]]

\* nds.map((node, idx) => ({...node, position: {x: 100, y: 100 + idx * 80}}))
\* (idx is 0-based, sequences are 1-based)
ArrangeNodes(nds) ==
    [i \in 1..Len(nds) |->
        [nds[i] EXCEPT !.position = [x |-> 100, y |-> 100 + (i - 1) * 80]]]

\* node.data.label || '' and node.data.description || ''
LabelOf(node) == IF "label" \in DOMAIN node.data THEN node.data.label ELSE << >>
DescriptionOf(node) ==
    IF "description" \in DOMAIN node.data THEN node.data.description ELSE ""

(***************************************************************************)
(* Codec: JSON.stringify / JSON.parse                                      *)
(*                                                                         *)
(* A document is either text that is no JSON, or a JSON value: null, or an *)
(* object given as its set of <<key, value>> members.  Objects nested in   *)
(* the arrays are written the same way, member by member.                  *)
(***************************************************************************)
\* JSON.stringify of an object: one member per key the object has
Members(obj) == {<<k, obj[k]>> : k \in DOMAIN obj}

\* JSON.parse of an object: the keys of the members, each with its value
ObjectOf(members) ==
    [k \in {m[1] : m \in members} |-> (CHOOSE m \in members : m[1] = k)[2]]

\* a variant that writes the fields newNode has and no others
StringifyNodeFields(n) ==
    Members([k \in DOMAIN n \cap {"id", "position", "data"} |->
        IF k \in {"position", "data"} THEN Members(n[k]) ELSE n[k]])

StringifyNode(n) ==
    Members([k \in DOMAIN n |->
        IF k \in {"position", "data"} THEN Members(n[k]) ELSE n[k]])

ParseNode(members) ==
    LET o == ObjectOf(members)
    IN  [k \in DOMAIN o |->
            IF k \in {"position", "data"} THEN ObjectOf(o[k]) ELSE o[k]]

\* JSON.stringify / JSON.parse of the arrays: item by item, in order
StringifyNodes(nds) == [i \in 1..Len(nds) |-> StringifyNode(nds[i])]
StringifyEdges(eds) == [i \in 1..Len(eds) |-> Members(eds[i])]
ParseNodes(items) == [i \in 1..Len(items) |-> ParseNode(items[i])]
ParseEdges(items) == [i \in 1..Len(items) |-> ObjectOf(items[i])]

\* JSON.stringify({nodes, edges}, null, 2)
Stringify(nds, eds) ==
    [kind |-> "object",
     members |-> Members([nodes |-> StringifyNodes(nds),
                          edges |-> StringifyEdges(eds)])]

\* Documents the program did not write: text that does not parse, the JSON
\* value null, and objects without `nodes`, without `edges`, without both.
NotJson == [kind |-> "text"]
JsonNull == [kind |-> "null"]
NoEdgesDoc ==
    [kind |-> "object",
     members |-> Members([nodes |-> StringifyNodes(<<SeedNode>>)])]
NoNodesDoc ==
    [kind |-> "object", members |-> Members([edges |-> << >>])]
EmptyObjectDoc == [kind |-> "object", members |-> {}]
ForeignDocs == {NotJson, JsonNull, NoEdgesDoc, NoNodesDoc, EmptyObjectDoc}

\* JSON.parse(text) throws
ParseThrows(doc) == doc.kind = "text"

\* json.nodes / json.edges throws a TypeError when json is null
MemberAccessThrows(doc) == doc.kind = "null"

\* json.nodes && json.edges: a missing member is undefined, an array is truthy
HasNodesAndEdges(doc) ==
    /\ doc.kind = "object"
    /\ \E m \in doc.members : m[1] = "nodes"
    /\ \E m \in doc.members : m[1] = "edges"

\* json.nodes and json.edges, as arrays of objects
ParsedNodes(doc) == ParseNodes(ObjectOf(doc.members).nodes)
ParsedEdges(doc) == ParseEdges(ObjectOf(doc.members).edges)

\* a variant whose catch block is empty
LoadResultSilent(doc, nds, eds, err) ==
    IF ParseThrows(doc) \/ MemberAccessThrows(doc)
    THEN [nodes |-> nds, edges |-> eds, error |-> err]
    ELSE IF HasNodesAndEdges(doc)
    THEN [nodes |-> ParsedNodes(doc), edges |-> ParsedEdges(doc), error |-> err]
    ELSE [nodes |-> nds, edges |-> eds, error |-> err]

\* the body of reader.onload: the store and the error it leaves
LoadResult(doc, nds, eds, err) ==
    IF ParseThrows(doc) \/ MemberAccessThrows(doc)
    THEN [nodes |-> nds, edges |-> eds, error |-> "Invalid JSON file"]
    ELSE IF HasNodesAndEdges(doc)
    THEN [nodes |-> ParsedNodes(doc), edges |-> ParsedEdges(doc), error |-> err]
    ELSE [nodes |-> nds, edges |-> eds, error |-> err]

(***************************************************************************)
(* Initial state: FlowBuilderContent after its first render                *)
(***************************************************************************)
Init ==
    /\ nodes = <<SeedNode>>
    /\ edges = << >>
    /\ showModal = FALSE
    /\ isEditMode = FALSE
    /\ error = ""
    /\ currentNode = EmptyBuffer
    /\ uuidCount = 0
    /\ files = {}
    /\ pending = << >>
    /\ exported = {}
    /\ issued = {}
    /\ last = [op |-> "init"]

(***************************************************************************)
(* Handlers.  The toolbar and the canvas lie under the modal's backdrop,   *)
(* so their handlers run only while the modal is hidden; the modal's       *)
(* controls exist only while it is shown.                                  *)
(***************************************************************************)
\* Add button
handleAddNode ==
    /\ ~showModal
    /\ error' = ""
    /\ isEditMode' = FALSE
    /\ currentNode' = EmptyBuffer
    /\ showModal' = TRUE
    /\ last' = [op |-> "handleAddNode"]
    /\ UNCHANGED <<nodes, edges, uuidCount, files, pending, exported, issued>>

\* click on the i-th node of the canvas
handleNodeClick(i) ==
    /\ ~showModal
    /\ i \in 1..Len(nodes)
    /\ error' = ""
    /\ isEditMode' = TRUE
    /\ currentNode' = [id |-> nodes[i].id,
                       label |-> LabelOf(nodes[i]),
                       description |-> DescriptionOf(nodes[i])]
    /\ showModal' = TRUE
    /\ last' = [op |-> "handleNodeClick", id |-> nodes[i].id]
    /\ UNCHANGED <<nodes, edges, uuidCount, files, pending, exported, issued>>

\* typing in the Label field
onChangeLabel(text) ==
    /\ showModal
    /\ currentNode' = [currentNode EXCEPT !.label = text]
    /\ last' = [op |-> "onChangeLabel"]
    /\ UNCHANGED <<nodes, edges, showModal, isEditMode, error, uuidCount,
                   files, pending, exported, issued>>

\* typing in the Description field
onChangeDescription(text) ==
    /\ showModal
    /\ currentNode' = [currentNode EXCEPT !.description = text]
    /\ last' = [op |-> "onChangeDescription"]
    /\ UNCHANGED <<nodes, edges, showModal, isEditMode, error, uuidCount,
                   files, pending, exported, issued>>

\* Save button
handleSaveNode ==
    /\ showModal
    /\ IF LabelMissing(currentNode.label)
       THEN /\ error' = "Label is required"
            /\ last' = [op |-> "handleSaveNode", branch |-> "rejected", pre |-> Pre]
            /\ UNCHANGED <<nodes, edges, showModal, isEditMode, currentNode,
                           uuidCount, files, pending, exported, issued>>
       ELSE IF isEditMode
       THEN /\ error' = ""
            /\ nodes' = UpdateNode(nodes, currentNode)
            /\ showModal' = FALSE
            /\ last' = [op |-> "handleSaveNode", branch |-> "update", pre |-> Pre]
            /\ UNCHANGED <<edges, isEditMode, currentNode, uuidCount, files,
                           pending, exported, issued>>
       ELSE /\ uuidCount < MaxUuid
            /\ error' = ""
            /\ uuidCount' = uuidCount + 1
            /\ LET newNode == NewNode(uuidv4(uuidCount + 1), Len(nodes), currentNode)
               IN  /\ nodes' = nodes \o <<newNode>>
                   /\ issued' = issued \cup {newNode.id}
            /\ showModal' = FALSE
            /\ last' = [op |-> "handleSaveNode", branch |-> "add", pre |-> Pre]
            /\ UNCHANGED <<edges, isEditMode, currentNode, files, pending, exported>>

\* Delete button: rendered in edit mode only, and the handler itself does
\* nothing unless isEditMode
handleDeleteNode ==
    /\ showModal
    /\ isEditMode
    /\ nodes' = RemoveNode(nodes, currentNode.id)
    /\ edges' = RemoveEdgesOf(edges, currentNode.id)
    /\ showModal' = FALSE
    /\ last' = [op |-> "handleDeleteNode", pre |-> Pre]
    /\ UNCHANGED <<isEditMode, error, currentNode, uuidCount, files, pending, exported, issued>>

\* a variant in which the Cancel button commits the buffer to its node
CancelSaves ==
    /\ showModal
    /\ nodes' = UpdateNode(nodes, currentNode)
    /\ showModal' = FALSE
    /\ last' = [op |-> "Cancel", pre |-> Pre]
    /\ UNCHANGED <<edges, isEditMode, error, currentNode, uuidCount,
                   files, pending, exported, issued>>

\* Cancel button
Cancel ==
    /\ showModal
    /\ showModal' = FALSE
    /\ last' = [op |-> "Cancel", pre |-> Pre]
    /\ UNCHANGED <<nodes, edges, isEditMode, error, currentNode, uuidCount,
                   files, pending, exported, issued>>

\* the modal's close button, backdrop click and Escape key
onHide ==
    /\ showModal
    /\ showModal' = FALSE
    /\ last' = [op |-> "onHide", pre |-> Pre]
    /\ UNCHANGED <<nodes, edges, isEditMode, error, currentNode, uuidCount,
                   files, pending, exported, issued>>

\* Auto button
autoArrange ==
    /\ ~showModal
    /\ nodes' = ArrangeNodes(nodes)
    /\ last' = [op |-> "autoArrange", pre |-> Pre]
    /\ UNCHANGED <<edges, showModal, isEditMode, error, currentNode, uuidCount,
                   files, pending, exported, issued>>

\* a connection drawn on the canvas from node i to node j
onConnect(i, j, sh, th) ==
    /\ ~showModal
    /\ i \in 1..Len(nodes)
    /\ j \in 1..Len(nodes)
    /\ edges' = addEdge([source |-> nodes[i].id, sourceHandle |-> sh,
                         target |-> nodes[j].id, targetHandle |-> th,
                         animated |-> TRUE], edges)
    /\ Len(edges') <= MaxEdges
    /\ last' = [op |-> "onConnect", source |-> nodes[i].id, sourceHandle |-> sh,
                 target |-> nodes[j].id, targetHandle |-> th, pre |-> Pre]
    /\ UNCHANGED <<nodes, showModal, isEditMode, error, currentNode, uuidCount,
                   files, pending, exported, issued>>

\* Export button: the document is written to disk
handleExport ==
    /\ ~showModal
    /\ \/ Cardinality(files) < MaxFiles
       \/ Stringify(nodes, edges) \in files
    /\ files' = files \cup {Stringify(nodes, edges)}
    /\ exported' = exported \cup {[nodes |-> nodes, edges |-> edges]}
    /\ last' = [op |-> "handleExport"]
    /\ UNCHANGED <<nodes, edges, showModal, isEditMode, error, currentNode,
                   uuidCount, pending, issued>>

\* the file input's change event with a file chosen: a read of the file is
\* started (with no file chosen the handler returns at once)
handleFileSelect(doc) ==
    /\ ~showModal
    /\ doc \in files \cup ForeignDocs
    /\ Len(pending) < MaxPending
    /\ pending' = Append(pending, doc)
    /\ last' = [op |-> "handleFileSelect"]
    /\ UNCHANGED <<nodes, edges, showModal, isEditMode, error, currentNode,
                   uuidCount, files, exported, issued>>

\* reader.onload of the k-th read in flight
onload(k) ==
    /\ k \in 1..Len(pending)
    /\ LET doc == pending[k]
       IN  /\ pending' = SubSeq(pending, 1, k - 1) \o SubSeq(pending, k + 1, Len(pending))
           /\ last' = [op |-> "onload", doc |-> doc, pre |-> Pre]
           /\ LET result == LoadResult(doc, nodes, edges, error)
              IN  /\ nodes' = result.nodes
                  /\ edges' = result.edges
                  /\ error' = result.error
    /\ UNCHANGED <<showModal, isEditMode, currentNode, uuidCount, files, exported, issued>>

\* Every handler, in runs that add at most MaxImportUuid nodes.
Next ==
    \/ handleAddNode
    \/ \E i \in 1..Len(nodes) : handleNodeClick(i)
    \/ \E text \in LabelInputs : onChangeLabel(text)
    \/ \E text \in DescriptionInputs : onChangeDescription(text)
    \/ handleSaveNode /\ uuidCount' <= MaxImportUuid
    \/ handleDeleteNode
    \/ Cancel
    \/ onHide
    \/ autoArrange
    \/ \E i, j \in 1..Len(nodes) : \E sh, th \in HandleInputs : onConnect(i, j, sh, th)
    \/ handleExport
    \/ \E doc \in files \cup ForeignDocs : handleFileSelect(doc)
    \/ \E k \in 1..Len(pending) : onload(k)

Spec == Init /\ [][Next]_vars

\* The editing handlers alone: a run in which nothing is exported or imported.
NextEdit ==
    \/ handleAddNode
    \/ \E i \in 1..Len(nodes) : handleNodeClick(i)
    \/ \E text \in LabelInputs : onChangeLabel(text)
    \/ \E text \in DescriptionInputs : onChangeDescription(text)
    \/ handleSaveNode
    \/ handleDeleteNode
    \/ Cancel
    \/ onHide
    \/ autoArrange
    \/ \E i, j \in 1..Len(nodes) : \E sh, th \in HandleInputs : onConnect(i, j, sh, th)

SpecEdit == Init /\ [][NextEdit]_vars

(***************************************************************************)
(* Vocabulary of the properties, written without the operators above       *)
(***************************************************************************)
\* the sequence seq without its k-th element
Without(seq, k) == SubSeq(seq, 1, k - 1) \o SubSeq(seq, k + 1, Len(seq))

\* an edge that starts or ends at the node id
Incident(e, id) == e.source = id \/ e.target = id

\* a label of blanks only (the empty label included)
Blank(label) == \A i \in 1..Len(label) : label[i] \in {" ", "\t", "\n"}

Deleted == last.op = "handleDeleteNode"
Saved == last.op = "handleSaveNode"
Added == Saved /\ ~last.pre.isEditMode /\ ~Blank(last.pre.currentNode.label)
Updated == Saved /\ last.pre.isEditMode /\ ~Blank(last.pre.currentNode.label)
Arranged == last.op = "autoArrange"
Loaded == last.op = "onload"

(***************************************************************************)
(* C1: referential integrity.  From the seed graph, after any sequence of  *)
(* AddNode, UpdateNode, ConnectNodes between existing nodes, AutoArrange   *)
(* and DeleteNode, the source and the target of every edge in the store    *)
(* are ids of nodes in the store.                                          *)
(***************************************************************************)
C1_NoDanglingEdge ==
    \A i \in 1..Len(edges) :
        /\ edges[i].source \in NodeIds(nodes)
        /\ edges[i].target \in NodeIds(nodes)

\* a delete has just removed the target node of an edge, and the edge with it
C1_Witness ==
    /\ Deleted
    /\ Len(last.pre.edges) = 1
    /\ last.pre.edges[1].target = last.pre.currentNode.id
    /\ last.pre.edges[1].source # last.pre.currentNode.id
    /\ edges = << >>
    /\ Len(nodes) >= 1

(***************************************************************************)
(* C2: DeleteNode(id) on an existing node removes exactly that node and    *)
(* exactly the edges that start or end at id; the other nodes and edges    *)
(* are kept as they were, in their order.                                  *)
(***************************************************************************)
C2_DeleteRemovesExactly ==
    (Deleted /\ last.pre.currentNode.id \in NodeIds(last.pre.nodes)) =>
        LET id == last.pre.currentNode.id
        IN  /\ \E k \in 1..Len(last.pre.nodes) :
                  /\ last.pre.nodes[k].id = id
                  /\ nodes = Without(last.pre.nodes, k)
            /\ edges = SelectSeq(last.pre.edges, LAMBDA e : ~Incident(e, id))

\* the middle one of three nodes was deleted, and an edge went with it
C2_Witness ==
    /\ Deleted
    /\ Len(last.pre.nodes) = 3
    /\ last.pre.nodes[2].id = last.pre.currentNode.id
    /\ Len(nodes) = 2
    /\ Len(edges) < Len(last.pre.edges)

(***************************************************************************)
(* C3: AddNode appends one node at the end of the node order.              *)
(* As claimed: it is placed at x = 150, y = 100 + 70 * count, count being  *)
(* the number of nodes before the call, for every count.                   *)
(* As the code has it: at y = 100 + 70 * count for count >= 1, and at      *)
(* y = 170 (as for count = 1) when the store is empty.                     *)
(***************************************************************************)
AppendedAt(y) ==
    /\ Len(nodes) = Len(last.pre.nodes) + 1
    /\ SubSeq(nodes, 1, Len(last.pre.nodes)) = last.pre.nodes
    /\ nodes[Len(nodes)].position = [x |-> 150, y |-> y]

C3_AddPositionAsClaimed ==
    Added => AppendedAt(100 + 70 * Len(last.pre.nodes))

C3_AddPosition ==
    Added => AppendedAt(IF Len(last.pre.nodes) = 0
                        THEN 170
                        ELSE 100 + 70 * Len(last.pre.nodes))

\* a node was added to a store that deletions had emptied
C3_Witness == Added /\ last.pre.nodes = << >> /\ Len(nodes) = 1

(***************************************************************************)
(* C4: node ids are unique.  AddNode gives the new node an id that no node *)
(* in the store has and that is not the seed id "1"; no two nodes in the   *)
(* store share an id; N AddNode calls have given N distinct ids.           *)
(***************************************************************************)
C4_UniqueIds ==
    /\ \A i, j \in 1..Len(nodes) : nodes[i].id = nodes[j].id => i = j
    /\ "1" \notin issued
    /\ Cardinality(issued) = uuidCount
    /\ Added => nodes[Len(nodes)].id \notin NodeIds(last.pre.nodes)

\* the second AddNode of a run, into a store that still holds the first
C4_Witness ==
    /\ Added
    /\ uuidCount = 2
    /\ Len(nodes) = 3

(***************************************************************************)
(* C5: UpdateNode(id, label, description) on an existing node changes the  *)
(* label and the description of that node and nothing else: not its id,    *)
(* its position or any other field, not the number or order of the nodes,  *)
(* no other node, no edge.                                                 *)
(***************************************************************************)
C5_UpdateFrame ==
    (Updated /\ last.pre.currentNode.id \in NodeIds(last.pre.nodes)) =>
        LET buf == last.pre.currentNode
            old == last.pre.nodes
        IN  /\ Len(nodes) = Len(old)
            /\ \A i \in 1..Len(old) :
                  IF old[i].id = buf.id
                  THEN /\ DOMAIN nodes[i] = DOMAIN old[i]
                       /\ \A key \in DOMAIN old[i] \ {"data"} :
                             nodes[i][key] = old[i][key]
                       /\ nodes[i].data = [label |-> buf.label,
                                           description |-> buf.description]
                  ELSE nodes[i] = old[i]
            /\ edges = last.pre.edges

\* the label of a node was changed, with two other nodes and an edge in
\* the store
C5_Witness ==
    /\ Updated
    /\ Len(nodes) = 3
    /\ Len(edges) = 1
    /\ \E i \in 1..Len(nodes) :
          /\ nodes[i].id = last.pre.currentNode.id
          /\ nodes[i].data.label # last.pre.nodes[i].data.label

(***************************************************************************)
(* C6: AutoArrange is idempotent: applied to a store it has just arranged, *)
(* it leaves every position, and the whole store, as it is.                *)
(***************************************************************************)
C6_ArrangeIdempotent ==
    Arranged =>
        /\ nodes = ArrangeNodes(last.pre.nodes)
        /\ ArrangeNodes(nodes) = nodes
        /\ edges = last.pre.edges

\* an arrange that moved nodes of a store of three
C6_Witness ==
    /\ Arranged
    /\ Len(nodes) = 3
    /\ \E i \in 1..3 : nodes[i].position # last.pre.nodes[i].position

(***************************************************************************)
(* C7: export / import round trip with wholesale replace.  Whatever the    *)
(* store holds, loading the document handleExport wrote for a graph g      *)
(* leaves the store with exactly the nodes and the edges of g.             *)
(***************************************************************************)
C7_RoundTrip ==
    \A g \in exported :
        (Loaded /\ last.doc = Stringify(g.nodes, g.edges)) =>
            /\ nodes = g.nodes
            /\ edges = g.edges

\* a graph of two nodes and an edge was loaded over a store that differed
\* from it in nodes and in edges
C7_Witness ==
    /\ Loaded
    /\ \E g \in exported :
          /\ last.doc = Stringify(g.nodes, g.edges)
          /\ Len(g.nodes) = 2
          /\ Len(g.edges) = 1
          /\ last.pre.nodes # g.nodes
          /\ last.pre.edges # g.edges
          /\ nodes = g.nodes

(***************************************************************************)
(* C8: loading a well-formed document without a `nodes` field or without   *)
(* an `edges` field leaves nodes and edges unchanged and reports an error  *)
(* (the error state is set).                                               *)
(***************************************************************************)
C8_MissingFieldReported ==
    (Loaded /\ last.doc \in {NoNodesDoc, NoEdgesDoc}) =>
        /\ nodes = last.pre.nodes
        /\ edges = last.pre.edges
        /\ error # ""

(***************************************************************************)
(* C9: loading a document that does not parse sets the error to the        *)
(* invalid-document message and leaves nodes and edges untouched.          *)
(***************************************************************************)
C9_ParseFailureReported ==
    (Loaded /\ last.doc = NotJson) =>
        /\ error = "Invalid JSON file"
        /\ nodes = last.pre.nodes
        /\ edges = last.pre.edges

\* the read of a document that is no JSON completed while no error was shown
\* and the store held more than the seed graph
C9_Witness ==
    /\ Loaded
    /\ last.doc = NotJson
    /\ last.pre.error = ""
    /\ Len(nodes) = 2
    /\ Len(edges) = 1

(***************************************************************************)
(* C10: Save with an empty or blank label, adding or editing, is rejected: *)
(* nodes and edges unchanged, error "Label is required", the modal still   *)
(* open, edit mode and buffer unchanged.                                   *)
(***************************************************************************)
C10_BlankLabelRejected ==
    (Saved /\ Blank(last.pre.currentNode.label)) =>
        /\ nodes = last.pre.nodes
        /\ edges = last.pre.edges
        /\ error = "Label is required"
        /\ showModal
        /\ isEditMode = last.pre.isEditMode
        /\ currentNode = last.pre.currentNode

\* a Save of a one-blank label while editing an existing node
C10_Witness ==
    /\ Saved
    /\ last.pre.currentNode.label = <<" ">>
    /\ last.pre.isEditMode
    /\ last.pre.currentNode.id \in NodeIds(nodes)

(***************************************************************************)
(* C11: committed labels are never blank.  From the seed graph, after any  *)
(* sequence of edit-session actions (Add, node click, buffer edits, Save,  *)
(* Cancel, Delete), ConnectNodes and AutoArrange, every node in the store  *)
(* has a label with at least one character that is not whitespace.         *)
(***************************************************************************)
C11_LabelsNotBlank ==
    \A i \in 1..Len(nodes) :
        /\ "label" \in DOMAIN nodes[i].data
        /\ ~Blank(nodes[i].data.label)

\* a Save was rejected for a blank label, the label was then filled in and
\* the second Save committed it to a node of the store
C11_Witness ==
    /\ Saved
    /\ last.pre.error = "Label is required"
    /\ last.pre.isEditMode
    /\ ~showModal
    /\ \E i \in 1..Len(nodes) :
          /\ nodes[i].id = last.pre.currentNode.id
          /\ nodes[i].data.label = last.pre.currentNode.label
          /\ nodes[i].data.label # last.pre.nodes[i].data.label

(***************************************************************************)
(* C12: the scenario of the seed graph.  The initial store holds exactly   *)
(* the seed node (id "1", label "Start") and no edge.  AddNode("B", "")    *)
(* then gives two nodes, the second at x = 150, y = 170.  Connecting "1"   *)
(* to the new node then gives exactly one edge.  Deleting "1" then leaves  *)
(* exactly one node, the added one, and no edge.  Each step is stated for  *)
(* the store the step before it leaves.                                    *)
(***************************************************************************)
SeedOnly(nds, eds) ==
    /\ Len(nds) = 1
    /\ nds[1].id = "1"
    /\ nds[1].data.label = <<"S", "t", "a", "r", "t">>
    /\ eds = << >>

\* the seed node followed by one added node labelled "B", without description
SeedAndB(nds) ==
    /\ Len(nds) = 2
    /\ SeedOnly(<<nds[1]>>, << >>)
    /\ nds[2].id # "1"
    /\ nds[2].data = [label |-> <<"B">>, description |-> ""]
    /\ nds[2].position = [x |-> 150, y |-> 170]

\* one edge, from the seed node to the second node
SeedToB(nds, eds) ==
    /\ Len(eds) = 1
    /\ eds[1].source = "1"
    /\ eds[1].target = nds[2].id

C12_SeedScenario ==
    /\ last.op = "init" => SeedOnly(nodes, edges)
    /\ (/\ Added
        /\ SeedOnly(last.pre.nodes, last.pre.edges)
        /\ last.pre.currentNode.label = <<"B">>
        /\ last.pre.currentNode.description = "")
           => SeedAndB(nodes) /\ edges = << >>
    /\ (/\ last.op = "onConnect"
        /\ SeedAndB(last.pre.nodes)
        /\ last.pre.edges = << >>
        /\ last.source = "1"
        /\ last.target = last.pre.nodes[2].id)
           => SeedAndB(nodes) /\ SeedToB(nodes, edges)
    /\ (/\ Deleted
        /\ SeedAndB(last.pre.nodes)
        /\ SeedToB(last.pre.nodes, last.pre.edges)
        /\ last.pre.currentNode.id = "1")
           => /\ nodes = <<last.pre.nodes[2]>>
              /\ edges = << >>

\* the end of the scenario: "1" was deleted from the store the first three
\* steps built
C12_Witness ==
    /\ Deleted
    /\ SeedAndB(last.pre.nodes)
    /\ SeedToB(last.pre.nodes, last.pre.edges)
    /\ last.pre.currentNode.id = "1"
    /\ Len(nodes) = 1
    /\ nodes[1].data.label = <<"B">>

(***************************************************************************)
(* C13: Save dispatches on the session.  With a valid label, Save while    *)
(* adding performs exactly one AddNode (one node more, no existing node    *)
(* changed) and Save while editing exactly one UpdateNode of the buffer's  *)
(* id (as many nodes as before, no other node changed); either way the     *)
(* session is closed afterwards and the edges are as they were.            *)
(***************************************************************************)
C13_SaveDispatch ==
    LET buf == last.pre.currentNode
        old == last.pre.nodes
        data == [label |-> buf.label, description |-> buf.description]
    IN  /\ Added =>
              /\ Len(nodes) = Len(old) + 1
              /\ SubSeq(nodes, 1, Len(old)) = old
              /\ nodes[Len(nodes)].data = data
              /\ ~showModal
              /\ edges = last.pre.edges
        /\ Updated =>
              /\ Len(nodes) = Len(old)
              /\ \A i \in 1..Len(old) :
                    IF old[i].id = buf.id
                    THEN nodes[i].id = buf.id /\ nodes[i].data = data
                    ELSE nodes[i] = old[i]
              /\ ~showModal
              /\ edges = last.pre.edges

\* a Save in an edit session that was opened after an add session, in a
\* store of three nodes and an edge: only the edited node took the label
C13_Witness ==
    /\ Updated
    /\ Len(nodes) = 3
    /\ Len(edges) = 1
    /\ last.pre.currentNode.id = "1"
    /\ nodes[1].data.label = <<"B">>
    /\ last.pre.nodes[1].data.label = <<"S", "t", "a", "r", "t">>
    /\ ~showModal

(***************************************************************************)
(* C14: Cancel, by the Cancel button or by hiding the modal, from an add   *)
(* session or an edit session and whatever the buffer holds, closes the    *)
(* session and leaves nodes and edges exactly as they were.                *)
(***************************************************************************)
C14_CancelFrame ==
    last.op \in {"Cancel", "onHide"} =>
        /\ last.pre.showModal
        /\ ~showModal
        /\ nodes = last.pre.nodes
        /\ edges = last.pre.edges

\* the Cancel button was pressed in an edit session whose buffer held a
\* label other than the node's
C14_Witness ==
    /\ last.op = "Cancel"
    /\ last.pre.isEditMode
    /\ \E i \in 1..Len(nodes) :
          /\ nodes[i].id = last.pre.currentNode.id
          /\ last.pre.currentNode.label = <<"B">>
          /\ nodes[i].data.label # <<"B">>
    /\ Len(edges) = 1

(***************************************************************************)
(* C15: Delete is reachable from an edit session only.  A node is removed  *)
(* by Delete only when the modal is open in edit mode, and only the node   *)
(* with the buffer's id; with the modal closed or in an add session (one   *)
(* entered after a cancelled edit session included) Delete is unavailable  *)
(* or leaves nodes and edges as they were.                                 *)
(***************************************************************************)
C15_DeleteOnlyWhenEditing ==
    Deleted =>
        /\ (nodes # last.pre.nodes \/ edges # last.pre.edges) =>
              last.pre.showModal /\ last.pre.isEditMode
        /\ ~(last.pre.showModal /\ last.pre.isEditMode) =>
              nodes = last.pre.nodes /\ edges = last.pre.edges
        /\ \A k \in 1..Len(last.pre.nodes) :
              (\A i \in 1..Len(nodes) : nodes[i] # last.pre.nodes[k]) =>
                  last.pre.nodes[k].id = last.pre.currentNode.id

\* the last of three nodes was deleted from its edit session; the edge
\* between the other two stayed
C15_Witness ==
    /\ Deleted
    /\ last.pre.showModal
    /\ last.pre.isEditMode
    /\ Len(last.pre.nodes) = 3
    /\ last.pre.currentNode.id = last.pre.nodes[3].id
    /\ nodes = SubSeq(last.pre.nodes, 1, 2)
    /\ Len(edges) = 1

(***************************************************************************)
(* C16: AutoArrange gives the node at 0-based index i the position         *)
(* x = 100, y = 100 + 80 * i and changes nothing else: ids, labels,        *)
(* descriptions, order and number of the nodes, and the edges, stay.       *)
(***************************************************************************)
C16_ArrangeFrame ==
    Arranged =>
        LET old == last.pre.nodes
        IN  /\ Len(nodes) = Len(old)
            /\ \A k \in 1..Len(old) :
                  /\ nodes[k].position = [x |-> 100, y |-> 100 + 80 * (k - 1)]
                  /\ DOMAIN nodes[k] = DOMAIN old[k]
                  /\ \A key \in DOMAIN old[k] \ {"position"} :
                        nodes[k][key] = old[k][key]
            /\ edges = last.pre.edges

\* three nodes and an edge: the third node went from where AddNode had put
\* it to y = 260
C16_Witness ==
    /\ Arranged
    /\ Len(nodes) = 3
    /\ Len(edges) = 1
    /\ last.pre.nodes[3].position = [x |-> 150, y |-> 240]
    /\ nodes[3].position = [x |-> 100, y |-> 260]

ErrorVisible == showModal /\ error # ""

C19_ErrorsVisible ==
    /\ (Saved /\ Blank(last.pre.currentNode.label)) => ErrorVisible
    /\ (Loaded /\ last.doc \in ForeignDocs) => ErrorVisible

(***************************************************************************)
(* C20: in every reachable state of an edit session (modal shown, edit     *)
(* mode set) the buffer's id is the id of a node in the store, whatever    *)
(* the interleaving of the user's actions with the completion of a pending *)
(* file read.                                                              *)
(***************************************************************************)
C20_EditedNodeInStore ==
    (showModal /\ isEditMode) => currentNode.id \in NodeIds(nodes)

====
